---- MODULE Spec2Model ----
(***************************************************************************)
(* Namebot/core.py: the NameBot client.  One call of Namebot() constructs  *)
(* a NameBotAPI, opens an aiohttp session in __aenter__, POSTs the payload *)
(* once in get_character, turns the answer (or the exception) into a dict, *)
(* wraps it in a NameBotResult and closes the session in __aexit__.        *)
(*                                                                         *)
(* Python values are records [t |-> type name, v |-> value]; a str is kept *)
(* as a TLA+ string, a dict as a function from keys to values.             *)
(***************************************************************************)
EXTENDS Integers, Sequences, FiniteSets, TLC

VARIABLES pc, request, session, sessions, opened, sent, wire, result, exc

vars == <<pc, request, session, sessions, opened, sent, wire, result, exc>>

(* ------------------------------ bounds --------------------------------- *)

NumCalls == 2

Calls == 1..NumCalls

OneCall == {1}

(* --------------------------- Python values ----------------------------- *)

None == [t |-> "NoneType", v |-> ""]

True == [t |-> "bool", v |-> "True"]

False == [t |-> "bool", v |-> "False"]

Str(s) == [t |-> "str", v |-> s]

Dict(f) == [t |-> "dict", v |-> f]

List(q) == [t |-> "list", v |-> q]

Raise(msg) == [t |-> "raise", v |-> msg]

EmptyDict == Dict(<<>>)

\* bool(x) of a Python value
Truthy(x) ==
    CASE x.t = "bool" -> x.v = "True"
      [] x.t = "NoneType" -> FALSE
      [] x.t = "str" -> x.v # ""
      [] x.t = "dict" -> DOMAIN x.v # {}
      [] x.t = "list" -> x.v # <<>>
      [] OTHER -> TRUE

\* data.get(key, default) on a dict
Get(data, key, default) ==
    IF key \in DOMAIN data.v THEN data.v[key] ELSE default

(* ------------------------- the wire: inputs ---------------------------- *)

OK == 200

Statuses == {OK, 401, 404, 500}

JSON_CT == "application/json"

ContentTypes == {JSON_CT, "text/html"}

T_EMPTY == ""
T_HTML == "<html>oops</html>"
T_NULL == "null"
T_LIST == "[\"Asuka\"]"
T_STRING == "\"Asuka\""
T_SUCCESS_CHARNAME == "{\"success\": true, \"character_name\": \"Asuka\", \"source\": \"api\"}"
T_STATUS_NAME == "{\"status\": true, \"name\": \"Asuka\"}"
T_SUCCESS_NAME == "{\"success\": true, \"name\": \"Asuka\"}"
T_STATUS_CHARNAME == "{\"status\": true, \"character_name\": \"Asuka\"}"
T_SUCCESS_ONLY == "{\"success\": true}"
T_FALSE_CHARNAME == "{\"success\": false, \"character_name\": \"Rei\"}"
T_FALSE_ERROR == "{\"success\": false, \"message\": \"not found\", \"error\": \"no match\"}"
T_ERROR_ONLY == "{\"error\": \"boom\"}"
T_YES_WARN == "{\"success\": \"yes\", \"character_name\": \"Rei\", \"error\": \"warn\"}"

BodyTexts ==
    { T_EMPTY, T_HTML, T_NULL, T_LIST, T_STRING, T_SUCCESS_CHARNAME,
      T_STATUS_NAME, T_SUCCESS_NAME, T_STATUS_CHARNAME, T_SUCCESS_ONLY,
      T_FALSE_CHARNAME, T_FALSE_ERROR, T_ERROR_ONLY, T_YES_WARN }

E_CONNECT == "Cannot connect to host your-app.vercel.app:443 ssl:default [Connection refused]"
E_TIMEOUT == ""
E_DNS == "Cannot connect to host your-app.vercel.app:443 ssl:default [Name or service not known]"
E_DECODE == "Expecting value: line 1 column 1 (char 0)"
E_MIMETYPE == "0, message='Attempt to decode JSON with unexpected mimetype: text/html'"
E_CLOSED == "Session is closed"
E_ATTRIBUTE == "object has no attribute 'get'"

\* str(e) of the exceptions a failed POST raises (str(TimeoutError()) is "")
TransportErrors == {E_CONNECT, E_TIMEOUT, E_DNS}

FileIds == {None, Str("F1")}

\* the inputs of the concurrent specification
ConcStatuses == {OK, 500}
ConcContentTypes == {JSON_CT}
ConcBodyTexts == {T_SUCCESS_CHARNAME, T_HTML, T_LIST}
ConcTransportErrors == {E_CONNECT}
ConcFileIds == {Str("F1")}

NoWire == [kind |-> "none", status |-> 0, content_type |-> "", text |-> "", e |-> ""]

Response(status, ct, text) ==
    [kind |-> "response", status |-> status, content_type |-> ct, text |-> text, e |-> ""]

Failure(e) ==
    [kind |-> "failure", status |-> 0, content_type |-> "", text |-> "", e |-> e]

(* ------------------------------ parsing -------------------------------- *)

\* json.loads of a body text
JsonLoads(text) ==
    CASE text = T_NULL -> None
      [] text = T_LIST -> List(<<Str("Asuka")>>)
      [] text = T_STRING -> Str("Asuka")
      [] text = T_SUCCESS_CHARNAME ->
            Dict([success |-> True, character_name |-> Str("Asuka"), source |-> Str("api")])
      [] text = T_STATUS_NAME -> Dict([status |-> True, name |-> Str("Asuka")])
      [] text = T_SUCCESS_NAME -> Dict([success |-> True, name |-> Str("Asuka")])
      [] text = T_STATUS_CHARNAME -> Dict([status |-> True, character_name |-> Str("Asuka")])
      [] text = T_SUCCESS_ONLY -> Dict([success |-> True])
      [] text = T_FALSE_CHARNAME -> Dict([success |-> False, character_name |-> Str("Rei")])
      [] text = T_FALSE_ERROR ->
            Dict([success |-> False, message |-> Str("not found"), error |-> Str("no match")])
      [] text = T_ERROR_ONLY -> Dict([error |-> Str("boom")])
      [] text = T_YES_WARN ->
            Dict([success |-> Str("yes"), character_name |-> Str("Rei"), error |-> Str("warn")])
      [] OTHER -> Raise(E_DECODE)

\* await response.json(): the mimetype check, the empty body, then json.loads
ResponseJson(ct, text) ==
    IF ct # JSON_CT THEN Raise(E_MIMETYPE)
    ELSE IF text = T_EMPTY THEN None
    ELSE JsonLoads(text)

(* --------------------------- NameBotAPI -------------------------------- *)

NoSession == 0

\* aiohttp.ClientSession(): a new session object, distinct from every other
SharedClientSession(heap) == 1

ClientSession(heap) == Len(heap) + 1

\* the heap of session objects after session sid has been opened
Opened(heap, sid) ==
    [i \in 1..(IF sid > Len(heap) THEN sid ELSE Len(heap)) |->
        IF i = sid THEN "open" ELSE heap[i]]

\* get_character: if not self.session: self.session = aiohttp.ClientSession()
GetCharacterSession(self_session, heap) ==
    IF self_session = NoSession THEN ClientSession(heap) ELSE self_session

PayloadBlankFileId(req) ==
    [user_id |-> req.user_id, img_unique_id |-> req.img_unique_id,
     bot_token |-> req.bot_token,
     file_id |-> IF Truthy(req.file_id) THEN req.file_id ELSE Str("")]

\* get_character: the JSON payload of the POST
Payload(req) ==
    [user_id |-> req.user_id, img_unique_id |-> req.img_unique_id,
     bot_token |-> req.bot_token, file_id |-> req.file_id]

SessionPostRetrying(log, payload) == Append(Append(log, payload), payload)

\* self.session.post(...): one request leaves for /api/get-character
SessionPost(log, payload) == Append(log, payload)

ApiErrorDictNoStatus(status, error_data) ==
    Dict([success |-> False, message |-> Str("API Error"), error |-> error_data])

\* get_character: the dict returned for a status other than 200
ApiErrorDict(status, error_data) ==
    Dict([success |-> False,
          message |-> Str("API Error: " \o ToString(status)),
          error |-> error_data])

RequestFailedDictBare(e) ==
    Dict([success |-> False, message |-> Str(e), error |-> Str(e)])

\* get_character: the dict returned by except Exception as e
RequestFailedDict(e) ==
    Dict([success |-> False, message |-> Str("Request failed: " \o e), error |-> Str(e)])

\* get_character from the arrival of the answer to its return value
GetCharacterReturn(w, session_open) ==
    IF ~session_open THEN RequestFailedDict(E_CLOSED)
    ELSE IF w.kind = "failure" THEN RequestFailedDict(w.e)
    ELSE IF w.status = OK
    THEN LET data == ResponseJson(w.content_type, w.text)
         IN  IF data.t = "raise" THEN RequestFailedDict(data.v) ELSE data
    ELSE LET error_data == IF w.content_type = JSON_CT
                           THEN ResponseJson(w.content_type, w.text)
                           ELSE EmptyDict
         IN  IF error_data.t = "raise" THEN RequestFailedDict(error_data.v)
             ELSE ApiErrorDict(w.status, error_data)

AExitKeepsOnError(heap, sid, exc_val) ==
    IF sid # NoSession /\ exc_val = ""
    THEN [heap EXCEPT ![sid] = "closed"] ELSE heap

\* __aexit__: if self.session: await self.session.close()
AExit(heap, sid, exc_val) ==
    IF sid # NoSession THEN [heap EXCEPT ![sid] = "closed"] ELSE heap

(* -------------------------- NameBotResult ------------------------------ *)

NameBotResultReadsName(data) ==
    [t |-> "NameBotResult",
     v |-> [raw_data |-> data,
            success |-> Get(data, "success", False),
            character_name |-> Get(data, "name", None),
            message |-> Get(data, "message", Str("")),
            source |-> Get(data, "source", None),
            error |-> Get(data, "error", None)]]

\* NameBotResult.__init__ on a dict
NameBotResult(data) ==
    [t |-> "NameBotResult",
     v |-> [raw_data |-> data,
            success |-> Get(data, "success", False),
            character_name |-> Get(data, "character_name", None),
            message |-> Get(data, "message", Str("")),
            source |-> Get(data, "source", None),
            error |-> Get(data, "error", None)]]

is_success(r) == r.v.success

name(r) == r.v.character_name

\* get_character_name: result.name if result.is_success else None
get_character_name(r) == IF Truthy(is_success(r)) THEN name(r) ELSE None

(* ------------------------------ Namebot -------------------------------- *)

NoRequest == [user_id |-> 0, img_unique_id |-> "", bot_token |-> "", file_id |-> None]

Init ==
    /\ pc = [c \in Calls |-> "idle"]
    /\ request = [c \in Calls |-> NoRequest]
    /\ session = [c \in Calls |-> NoSession]
    /\ sessions = <<>>
    /\ opened = [c \in Calls |-> {}]
    /\ sent = [c \in Calls |-> <<>>]
    /\ wire = [c \in Calls |-> NoWire]
    /\ result = [c \in Calls |-> None]
    /\ exc = [c \in Calls |-> ""]

\* Namebot(...) up to the await of the POST: NameBotAPI(api_url), __aenter__,
\* then get_character builds the payload and sends it
Call(c, F) ==
    /\ pc[c] = "idle"
    /\ \E f \in F :
        LET req == [user_id |-> 42, img_unique_id |-> "u1", bot_token |-> "T", file_id |-> f]
            entered == ClientSession(sessions)
            heap1 == Opened(sessions, entered)
            used == GetCharacterSession(entered, heap1)
            heap2 == Opened(heap1, used)
        IN  /\ request' = [request EXCEPT ![c] = req]
            /\ session' = [session EXCEPT ![c] = used]
            /\ sessions' = heap2
            /\ opened' = [opened EXCEPT ![c] = {entered, used}]
            /\ sent' = [sent EXCEPT ![c] = SessionPost(sent[c], Payload(req))]
    /\ pc' = [pc EXCEPT ![c] = "awaiting"]
    /\ UNCHANGED <<wire, result, exc>>

\* the endpoint answers: status line, Content-Type and body
Respond(c, S, CT, B) ==
    /\ pc[c] = "awaiting"
    /\ \E status \in S, ct \in CT, text \in B :
        wire' = [wire EXCEPT ![c] = Response(status, ct, text)]
    /\ pc' = [pc EXCEPT ![c] = "reading"]
    /\ UNCHANGED <<request, session, sessions, opened, sent, result, exc>>

\* the POST fails at transport level: aiohttp raises inside the try
TransportFail(c, E) ==
    /\ pc[c] = "awaiting"
    /\ \E e \in E : wire' = [wire EXCEPT ![c] = Failure(e)]
    /\ pc' = [pc EXCEPT ![c] = "reading"]
    /\ UNCHANGED <<request, session, sessions, opened, sent, result, exc>>

\* get_character returns its dict (or whatever response.json() gave) and
\* Namebot builds NameBotResult(response); data.get raises on a non-dict
Return(c) ==
    /\ pc[c] = "reading"
    /\ LET response == GetCharacterReturn(wire[c], sessions[session[c]] = "open")
       IN  IF response.t = "dict"
           THEN /\ result' = [result EXCEPT ![c] = NameBotResult(response)]
                /\ exc' = exc
           ELSE /\ result' = result
                /\ exc' = [exc EXCEPT ![c] = "'" \o response.t \o "' " \o E_ATTRIBUTE]
    /\ pc' = [pc EXCEPT ![c] = "closing"]
    /\ UNCHANGED <<request, session, sessions, opened, sent, wire>>

\* async with ... leaves: __aexit__ closes the session, then the call returns
\* its result or the exception propagates to the caller
Exit(c) ==
    /\ pc[c] = "closing"
    /\ sessions' = AExit(sessions, session[c], exc[c])
    /\ pc' = [pc EXCEPT ![c] = IF exc[c] = "" THEN "returned" ELSE "raised"]
    /\ UNCHANGED <<request, session, opened, sent, wire, result, exc>>

Next ==
    \E c \in OneCall :
        \/ Call(c, FileIds)
        \/ Respond(c, Statuses, ContentTypes, BodyTexts)
        \/ TransportFail(c, TransportErrors)
        \/ Return(c)
        \/ Exit(c)

Spec == Init /\ [][Next]_vars

\* several Namebot calls in flight at once, interleaved at their await points
NextConc ==
    \E c \in Calls :
        \/ Call(c, ConcFileIds)
        \/ Respond(c, ConcStatuses, ConcContentTypes, ConcBodyTexts)
        \/ TransportFail(c, ConcTransportErrors)
        \/ Return(c)
        \/ Exit(c)

SpecConc == Init /\ [][NextConc]_vars

TypeOK ==
    /\ pc \in [Calls -> {"idle", "awaiting", "reading", "closing", "returned", "raised"}]
    /\ \A c \in Calls : session[c] \in 0..Len(sessions)
    /\ \A i \in 1..Len(sessions) : sessions[i] \in {"open", "closed"}

(* ------------------------------ claims --------------------------------- *)

Done(c) == pc[c] \in {"returned", "raised"}

Answered(c) == Done(c) /\ wire[c].kind = "response"

\* the body of the answer as json.loads reads it
Body(c) == JsonLoads(wire[c].text)

\* the messages of the shape "Request failed: <str(e)>"
RequestFailedMessages ==
    { "Request failed: " \o e :
        e \in TransportErrors \cup {E_DECODE, E_MIMETYPE, E_CLOSED} }

\* C1: every call of Namebot ends by returning a NameBotResult, whatever the
\* status, the body or the transport failure; no call ends with an exception
\* propagating to the caller.
C1_NeverRaises == \A c \in Calls : pc[c] # "raised"

\* C2 as stated: a 200 answer whose JSON object has a truthy success or status
\* and a character_name or name gives a success whose name is that name.
C2_SuccessOrStatus ==
    \A c \in Calls :
        ( /\ Answered(c)
          /\ wire[c].status = OK
          /\ wire[c].content_type = JSON_CT
          /\ Body(c).t = "dict"
          /\ Truthy(Get(Body(c), "success", False)) \/ Truthy(Get(Body(c), "status", False))
          /\ {"character_name", "name"} \cap DOMAIN Body(c).v # {} )
        => /\ pc[c] = "returned"
           /\ Truthy(is_success(result[c]))
           /\ name(result[c]) = Get(Body(c), "character_name", Get(Body(c), "name", None))

\* C2 amended: a 200 answer declared application/json whose JSON object has a
\* truthy `success` and a `character_name` gives a result whose is_success is
\* that (truthy) success value and whose name is exactly that character_name.
C2_SuccessCharacterName ==
    \A c \in Calls :
        ( /\ Answered(c)
          /\ wire[c].status = OK
          /\ wire[c].content_type = JSON_CT
          /\ Body(c).t = "dict"
          /\ "success" \in DOMAIN Body(c).v
          /\ Truthy(Body(c).v.success)
          /\ "character_name" \in DOMAIN Body(c).v )
        => /\ pc[c] = "returned"
           /\ is_success(result[c]) = Body(c).v.success
           /\ Truthy(is_success(result[c]))
           /\ name(result[c]) = Body(c).v.character_name
           /\ get_character_name(result[c]) = Body(c).v.character_name

C2_Witness ==
    \E c \in Calls :
        /\ pc[c] = "returned"
        /\ wire[c] = Response(OK, JSON_CT, T_YES_WARN)
        /\ is_success(result[c]) = Str("yes")
        /\ name(result[c]) = Str("Rei")

\* C3 as stated: a 401 answer gives the dedicated failure AuthFailed with the
\* detail "invalid credential", whatever the body.
C3_AuthFailed ==
    \A c \in Calls :
        (Answered(c) /\ wire[c].status = 401)
        => /\ pc[c] = "returned"
           /\ ~Truthy(is_success(result[c]))
           /\ result[c].v.message = Str("invalid credential")

\* C3 amended: a 401 answer is handled like any other status that is not 200.
\* The call returns a failure (success False, no character name) whatever the
\* body; its message is "API Error: 401" and its error the parsed body ({} when
\* the body is not declared application/json), except that a body declared
\* application/json that does not parse gives "Request failed: <parse error>".
C3_Status401 ==
    \A c \in Calls :
        (Answered(c) /\ wire[c].status = 401)
        => /\ pc[c] = "returned"
           /\ is_success(result[c]) = False
           /\ name(result[c]) = None
           /\ IF wire[c].content_type = JSON_CT /\ wire[c].text # T_EMPTY /\ Body(c).t = "raise"
              THEN /\ result[c].v.message = Str("Request failed: " \o E_DECODE)
                   /\ result[c].v.error = Str(E_DECODE)
              ELSE /\ result[c].v.message = Str("API Error: 401")
                   /\ result[c].v.error =
                        IF wire[c].content_type # JSON_CT THEN EmptyDict
                        ELSE IF wire[c].text = T_EMPTY THEN None
                        ELSE Body(c)

C3_Witness ==
    \E c \in Calls :
        /\ pc[c] = "returned"
        /\ wire[c] = Response(401, JSON_CT, T_ERROR_ONLY)
        /\ result[c].v.message = Str("API Error: 401")
        /\ result[c].v.error = Dict([error |-> Str("boom")])

\* C4: a transport failure of the POST gives a failure result whose message
\* and error carry str(e), and a failure of that shape never comes from an
\* answer whose status is not 200.
C4_TransportDistinguishable ==
    \A c \in Calls :
        /\ (Done(c) /\ wire[c].kind = "failure")
            => /\ pc[c] = "returned"
               /\ is_success(result[c]) = False
               /\ result[c].v.message = Str("Request failed: " \o wire[c].e)
               /\ result[c].v.error = Str(wire[c].e)
        /\ (Answered(c) /\ wire[c].status # OK)
            => /\ pc[c] = "returned"
               /\ result[c].v.message.v \notin RequestFailedMessages

\* C5: an answer whose status is neither 200 nor 401 gives a failure, never a
\* success; with a body that parses as JSON the detail is the body's error
\* (the body itself or its error field), and with a body that does not parse
\* the detail names the status ("HTTP <status>", spelled "API Error: <status>"
\* by get_character) and is no "Request failed" detail.
C5_NonOkDetail ==
    \A c \in Calls :
        (Answered(c) /\ wire[c].status \notin {OK, 401})
        => /\ pc[c] = "returned"
           /\ ~Truthy(is_success(result[c]))
           /\ (wire[c].content_type = JSON_CT /\ Body(c).t # "raise")
                => \/ result[c].v.error = Body(c)
                   \/ /\ Body(c).t = "dict"
                      /\ "error" \in DOMAIN Body(c).v
                      /\ result[c].v.error = Body(c).v.error
           /\ (Body(c).t = "raise")
                => result[c].v.message.v \in
                      { "HTTP " \o ToString(wire[c].status),
                        "API Error: " \o ToString(wire[c].status) }

\* C6 as stated: a call whose file_id is absent sends nothing and returns the
\* failure MissingInput, "no image source available".
C6_MissingInput ==
    \A c \in Calls :
        (pc[c] # "idle" /\ ~Truthy(request[c].file_id))
        => /\ sent[c] = <<>>
           /\ Done(c) => /\ pc[c] = "returned"
                         /\ ~Truthy(is_success(result[c]))
                         /\ result[c].v.message = Str("no image source available")

\* C6 amended: file_id is not validated.  A call whose file_id is None sends
\* its one POST with file_id null in the payload, next to the caller's other
\* three identifiers, and its outcome is the one the answer dictates; no
\* MissingInput failure exists.
C6_NoneFileIdIsSent ==
    \A c \in Calls :
        (pc[c] # "idle" /\ request[c].file_id = None)
        => /\ Len(sent[c]) = 1
           /\ sent[c][1].file_id = None
           /\ sent[c][1].user_id = request[c].user_id
           /\ sent[c][1].img_unique_id = request[c].img_unique_id
           /\ sent[c][1].bot_token = request[c].bot_token
           /\ (pc[c] = "returned" /\ wire[c] = Response(OK, JSON_CT, T_SUCCESS_CHARNAME))
                => /\ is_success(result[c]) = True
                   /\ name(result[c]) = Str("Asuka")
           /\ pc[c] = "returned"
                => result[c].v.message # Str("no image source available")

C6_Witness ==
    \E c \in Calls :
        /\ pc[c] = "returned"
        /\ request[c].file_id = None
        /\ Len(sent[c]) = 1
        /\ sent[c][1].file_id = None
        /\ is_success(result[c]) = True

\* C7: no retries.  A call has sent no request before it starts and exactly
\* one from then on: after a status that is not 200, a body that does not
\* parse or a transport failure it ends with that single request sent.
C7_ExactlyOnePost ==
    \A c \in Calls :
        /\ pc[c] = "idle" => sent[c] = <<>>
        /\ pc[c] # "idle" => Len(sent[c]) = 1

C7_Witness ==
    \E c \in Calls :
        /\ pc[c] = "returned"
        /\ wire[c].kind = "failure"
        /\ is_success(result[c]) = False
        /\ Len(sent[c]) = 1

\* C8: when a call has ended, by returning or by raising, every session it
\* opened is closed; and it did open one.
C8_SessionsClosed ==
    \A c \in Calls :
        Done(c) => /\ opened[c] # {}
                   /\ \A s \in opened[c] : sessions[s] = "closed"

C8_Witness ==
    \E c \in Calls :
        /\ pc[c] = "raised"
        /\ exc[c] # ""
        /\ sessions[session[c]] = "closed"

InFlight(c) == pc[c] \in {"awaiting", "reading", "closing"}

\* C9: concurrent calls share nothing.  No two calls use the same session, the
\* session of a call in flight is open however the other calls have ended, and
\* two calls that got the same answer end the same way with the same result.
C9_Independent ==
    /\ \A c, d \in Calls :
        (c # d /\ pc[c] # "idle" /\ pc[d] # "idle") => opened[c] \cap opened[d] = {}
    /\ \A c \in Calls : InFlight(c) => sessions[session[c]] = "open"
    /\ \A c, d \in Calls :
        (Done(c) /\ Done(d) /\ wire[c] = wire[d])
        => /\ pc[c] = pc[d]
           /\ result[c] = result[d]
           /\ exc[c] = exc[d]

C9_Witness ==
    \E c, d \in Calls :
        /\ c # d
        /\ Done(c)
        /\ sessions[session[c]] = "closed"
        /\ pc[d] = "reading"
        /\ sessions[session[d]] = "open"

\* C10 as stated: every returned result is either a success with a character
\* name and no failure information, or a failure with a non-empty message and
\* no character name.
C10_ExactlyOneVariant ==
    \A c \in Calls :
        pc[c] = "returned"
        => \/ /\ Truthy(is_success(result[c]))
              /\ name(result[c]) # None
              /\ result[c].v.error = None
           \/ /\ ~Truthy(is_success(result[c]))
              /\ Truthy(result[c].v.message)
              /\ name(result[c]) = None

\* C10 amended: a result that get_character made itself (status not 200, or a
\* caught exception) is a failure with success False, a non-empty message and
\* no character name.  A result made of a 200 JSON object copies success
\* (default False), character_name (default None) and message (default "")
\* from the body as they are, so it is whichever variant, or mixture, the body
\* spells.
C10_OwnFailuresWellFormed ==
    \A c \in Calls :
        pc[c] = "returned"
        => IF wire[c].kind = "response" /\ wire[c].status = OK
              /\ ResponseJson(wire[c].content_type, wire[c].text).t = "dict"
           THEN /\ is_success(result[c]) = Get(Body(c), "success", False)
                /\ name(result[c]) = Get(Body(c), "character_name", None)
                /\ result[c].v.message = Get(Body(c), "message", Str(""))
                /\ result[c].v.error = Get(Body(c), "error", None)
           ELSE /\ is_success(result[c]) = False
                /\ name(result[c]) = None
                /\ Truthy(result[c].v.message)

C10_Witness ==
    \E c \in Calls :
        /\ pc[c] = "returned"
        /\ wire[c] = Failure(E_TIMEOUT)
        /\ result[c].v.message = Str("Request failed: ")
        /\ result[c].v.error = Str("")

====
